---- MODULE Spec2Model ----
(***************************************************************************)
(* Model of country/mkstruct.py: the generators of the ISO 3166-1 lookup   *)
(* tables (iso2table, iso3table), the code maps (iso2map, iso3map) and the *)
(* letter-combination lists (char2combos, char3combos).                    *)
(*                                                                         *)
(* A string of the program is a sequence of characters, a character is a   *)
(* one-character TLA+ string, and ord/chr are the code point tables of the  *)
(* characters the model uses.  Country names are opaque strings.  A        *)
(* printed line  prefix + sep.join(items) + suffix  is the record          *)
(* [prefix, sep, items, suffix].                                           *)
(***************************************************************************)
EXTENDS Integers, Sequences, FiniteSets, TLC

VARIABLES main, pc, routine, data, idx, table, isomap, combos, i, j, stdout, error

vars == <<main, pc, routine, data, idx, table, isomap, combos, i, j, stdout, error>>

-----------------------------------------------------------------------------
(* Bounds of the model *)

MaxRecords == 3

-----------------------------------------------------------------------------
(* Characters: ord and chr *)

UpperCase ==
    << "A", "B", "C", "D", "E", "F", "G", "H", "I", "J", "K", "L", "M",
       "N", "O", "P", "Q", "R", "S", "T", "U", "V", "W", "X", "Y", "Z" >>

\* Characters outside 'A'..'Z' that the input data of the model may hold,
\* with their code points: a tab, a digit and a lowercase letter.
OtherChars == { <<9, "\t">>, <<48, "0">>, <<97, "a">> }

IsUpper(c) == \E n \in 1..26 : UpperCase[n] = c

ord(c) ==
    IF IsUpper(c)
    THEN 64 + (CHOOSE n \in 1..26 : UpperCase[n] = c)
    ELSE (CHOOSE p \in OtherChars : p[2] = c)[1]

chr(n) ==
    IF n \in 65..90
    THEN UpperCase[n - 64]
    ELSE (CHOOSE p \in OtherChars : p[1] = n)[2]

\* range(26)
range26 == 0..25

\* Faulty variants of the index expression: a wrong modulus
LetterIndex_mod64(c) == ord(c) % 64

LetterIndex_mod26(c) == ord(c) % 26

\* ord(code[k]) % 65, the index expression of the table builders
LetterIndex(c) == ord(c) % 65

-----------------------------------------------------------------------------
(* The input file: a JSON list of country records *)

Record(n, a2, a3) == [name |-> n, iso_3166_1_alpha2 |-> a2, iso_3166_1_alpha3 |-> a3]

\* The records the model draws the file from: two well-formed codes, each
\* under two names; a code with a tab (code point 9); a code with a
\* lowercase letter or a digit; codes of the wrong length.
Country ==
    { Record(n, <<"T", "L">>, <<"T", "S", "T">>) : n \in {"Testland", "Otherland"} }
      \cup { Record(n, <<"J", "O">>, <<"J", "O", "R">>) : n \in {"Testland", "Otherland"} }
      \cup { Record("Tabland", <<"\t", "O">>, <<"\t", "O", "R">>),
             Record("Lowerland", <<"a", "L">>, <<"T", "0", "T">>),
             Record("Bad", <<"T", "O", "O", "L", "O", "N", "G">>, <<"T", "S">>) }

SeqUpTo(S, n) == UNION { [1..k -> S] : k \in 0..n }

Datasets == SeqUpTo(Country, MaxRecords)

Builders == {"iso2table", "iso3table", "iso2map", "iso3map"}

Enumerators == {"char2combos", "char3combos"}

-----------------------------------------------------------------------------
(* Data structures *)

\* [""] * 26
EmptyRow == [c \in range26 |-> ""]

\* the 26x26 matrix of iso2table
EmptyTable2 == [r \in range26 |-> EmptyRow]

\* the 26x26x26 matrix of iso3table
EmptyTable3 == [r \in range26 |-> EmptyTable2]

\* Faulty variants of the dict assignment: the first value kept, and the
\* key moved to the end
DictSet_keepfirst(d, key, value) ==
    IF \E k \in 1..Len(d) : d[k][1] = key THEN d ELSE Append(d, <<key, value>>)

DictSet_reinsert(d, key, value) ==
    Append(SelectSeq(d, LAMBDA item : item[1] # key), <<key, value>>)

\* d[key] = value on a dict: a dict is the sequence of its <<key, value>>
\* items in insertion order; an existing key keeps its position.
DictSet(d, key, value) ==
    IF \E k \in 1..Len(d) : d[k][1] = key
    THEN [k \in 1..Len(d) |-> IF d[k][1] = key THEN <<key, value>> ELSE d[k]]
    ELSE Append(d, <<key, value>>)

Line(prefix, sep, items, suffix) ==
    [prefix |-> prefix, sep |-> sep, items |-> items, suffix |-> suffix]

Text(s) == Line(s, "", <<>>, "")

\* a list indexed 0..25 as the sequence of its elements
AsSeq(f) == [k \in 1..26 |-> f[k - 1]]

\* Faulty variant of the assertion: >= for ==
LenOk_atleast(code, n) == Len(code) >= n

\* the assertion len(code) == n
LenOk(code, n) == Len(code) = n

\* Faulty variant: a list as long as the modulus
InRange_mod(index) == index < 65

\* whether a list of 26 elements has the index (an index is never negative
\* here: it is a remainder)
InRange(index) == index < 26

\* Faulty variant: rows that are one shared list, as [[""] * 26] * 26 builds
Store2_sharedrow(t, row, col, name) == [r \in range26 |-> [t[r] EXCEPT ![col] = name]]

\* table[row][col] = name
Store2(t, row, col, name) == [t EXCEPT ![row][col] = name]

\* Faulty variant: the last two indices swapped
Store3_swapped(t, row, col, zen, name) == [t EXCEPT ![row][zen][col] = name]

\* table[row][col][zen] = name
Store3(t, row, col, zen, name) == [t EXCEPT ![row][col][zen] = name]

-----------------------------------------------------------------------------
Locals ==
    /\ pc = "main"
    /\ routine = ""
    /\ idx = 1
    /\ table = <<>>
    /\ isomap = <<>>
    /\ combos = <<>>
    /\ i = 0
    /\ j = 0
    /\ stdout = <<>>
    /\ error = ""

\* main calls one builder on the file (the source's main names one routine,
\* and is edited to name another)
Init ==
    /\ main \in { <<r>> : r \in Builders }
    /\ data \in Datasets
    /\ Locals

\* main calls the next routine: the file is loaded and the routine's
\* structure is initialised.
Call ==
    /\ pc = "main"
    /\ main # <<>>
    /\ routine' = Head(main)
    /\ main' = Tail(main)
    /\ pc' = "loop"
    /\ idx' = 1
    /\ i' = 0
    /\ j' = 0
    /\ table' = CASE Head(main) = "iso2table" -> EmptyTable2
                  [] Head(main) = "iso3table" -> EmptyTable3
                  [] OTHER -> table
    /\ isomap' = IF Head(main) \in {"iso2map", "iso3map"} THEN <<>> ELSE isomap
    /\ combos' = IF Head(main) \in {"char2combos", "char3combos"} THEN <<>> ELSE combos
    /\ UNCHANGED <<data, stdout, error>>

Raise(e) ==
    /\ error' = e
    /\ pc' = "aborted"
    /\ UNCHANGED <<main, routine, data, idx, table, isomap, combos, i, j, stdout>>

Return ==
    /\ pc' = IF main = <<>> THEN "done" ELSE "main"
    /\ UNCHANGED <<main, routine, data, idx, table, isomap, combos, i, j, error>>

\* one iteration of the loop of iso2table
iso2table_fill ==
    /\ pc = "loop" /\ routine = "iso2table" /\ idx <= Len(data)
    /\ LET country == data[idx]
           code == country.iso_3166_1_alpha2
       IN  IF ~LenOk(code, 2) THEN Raise("AssertionError")
           ELSE LET row == LetterIndex(code[1])
                    col == LetterIndex(code[2])
                IN  IF ~(InRange(row) /\ InRange(col)) THEN Raise("IndexError")
                    ELSE /\ table' = Store2(table, row, col, country.name)
                         /\ idx' = idx + 1
                         /\ UNCHANGED <<main, pc, routine, data, isomap, combos, i, j, stdout, error>>

iso2table_print ==
    /\ pc = "loop" /\ routine = "iso2table" /\ idx > Len(data)
    /\ stdout' = stdout \o <<Text("var iso2table = [][]string{")>>
                   \o [r \in 1..26 |-> Line("    {\"", "\", \"", AsSeq(table[r - 1]), "\"},")]
                   \o <<Text("}")>>
    /\ Return

\* one iteration of the loop of iso3table
iso3table_fill ==
    /\ pc = "loop" /\ routine = "iso3table" /\ idx <= Len(data)
    /\ LET country == data[idx]
           code == country.iso_3166_1_alpha3
       IN  IF ~LenOk(code, 3) THEN Raise("AssertionError")
           ELSE LET row == LetterIndex(code[1])
                    col == LetterIndex(code[2])
                    zen == LetterIndex(code[3])
                IN  IF ~(InRange(row) /\ InRange(col) /\ InRange(zen)) THEN Raise("IndexError")
                    ELSE /\ table' = Store3(table, row, col, zen, country.name)
                         /\ idx' = idx + 1
                         /\ UNCHANGED <<main, pc, routine, data, isomap, combos, i, j, stdout, error>>

\* the lines printed for one row of the cube
PrintMatrix(matrix) ==
    <<Text("    {")>>
      \o [c \in 1..26 |-> Line("        {\"", "\", \"", AsSeq(matrix[c - 1]), "\"},")]
      \o <<Text("    },")>>

RECURSIVE PrintRows(_, _)
PrintRows(t, r) == IF r = 26 THEN <<>> ELSE PrintMatrix(t[r]) \o PrintRows(t, r + 1)

iso3table_print ==
    /\ pc = "loop" /\ routine = "iso3table" /\ idx > Len(data)
    /\ stdout' = stdout \o <<Text("var iso3table = [][][]string{")>>
                   \o PrintRows(table, 0)
                   \o <<Text("}")>>
    /\ Return

\* one iteration of the loop of iso2map
iso2map_fill ==
    /\ pc = "loop" /\ routine = "iso2map" /\ idx <= Len(data)
    /\ LET country == data[idx]
           code == country.iso_3166_1_alpha2
       IN  IF ~LenOk(code, 2) THEN Raise("AssertionError")
           ELSE /\ isomap' = DictSet(isomap, code, country.name)
                /\ idx' = idx + 1
                /\ UNCHANGED <<main, pc, routine, data, table, combos, i, j, stdout, error>>

PrintItems(d) == [k \in 1..Len(d) |-> Line("    \"", "\": \"", d[k], "\",")]

iso2map_print ==
    /\ pc = "loop" /\ routine = "iso2map" /\ idx > Len(data)
    /\ stdout' = stdout \o <<Text("var iso2map = map[string]string{")>>
                   \o PrintItems(isomap)
                   \o <<Text("}")>>
    /\ Return

\* one iteration of the loop of iso3map
iso3map_fill ==
    /\ pc = "loop" /\ routine = "iso3map" /\ idx <= Len(data)
    /\ LET country == data[idx]
           code == country.iso_3166_1_alpha3
       IN  IF ~LenOk(code, 3) THEN Raise("AssertionError")
           ELSE /\ isomap' = DictSet(isomap, code, country.name)
                /\ idx' = idx + 1
                /\ UNCHANGED <<main, pc, routine, data, table, combos, i, j, stdout, error>>

iso3map_print ==
    /\ pc = "loop" /\ routine = "iso3map" /\ idx > Len(data)
    /\ stdout' = stdout \o <<Text("var iso3map = map[string]string{")>>
                   \o PrintItems(isomap)
                   \o <<Text("}")>>
    /\ Return

\* Faulty variant: the letters in the wrong order
Combo2_swapped(a, b) == <<chr(b + 65), chr(a + 65)>>

\* chr(i + 65) + chr(j + 65)
Combo2(a, b) == <<chr(a + 65), chr(b + 65)>>

\* Faulty variant: the last two letters in the wrong order
Combo3_swapped(a, b, c) == <<chr(a + 65), chr(c + 65), chr(b + 65)>>

\* chr(i + 65) + chr(j + 65) + chr(k + 65)
Combo3(a, b, c) == <<chr(a + 65), chr(b + 65), chr(c + 65)>>

\* one iteration of the outer loop of char2combos: a row of 26 strings
char2combos_row ==
    /\ pc = "loop" /\ routine = "char2combos" /\ i < 26
    /\ combos' = Append(combos, [k \in 1..26 |-> Combo2(i, k - 1)])
    /\ i' = i + 1
    /\ UNCHANGED <<main, pc, routine, data, idx, table, isomap, j, stdout, error>>

PrintCombos(cs) == [r \in 1..Len(cs) |-> Line("    \"", "\", \"", cs[r], "\",")]

char2combos_print ==
    /\ pc = "loop" /\ routine = "char2combos" /\ i = 26
    /\ stdout' = stdout \o <<Text("var char2words = []string{")>>
                   \o PrintCombos(combos)
                   \o <<Text("}")>>
    /\ Return

\* one iteration of the second loop of char3combos: a row of 26 strings
char3combos_row ==
    /\ pc = "loop" /\ routine = "char3combos" /\ i < 26
    /\ combos' = Append(combos, [k \in 1..26 |-> Combo3(i, j, k - 1)])
    /\ i' = IF j = 25 THEN i + 1 ELSE i
    /\ j' = IF j = 25 THEN 0 ELSE j + 1
    /\ UNCHANGED <<main, pc, routine, data, idx, table, isomap, stdout, error>>

char3combos_print ==
    /\ pc = "loop" /\ routine = "char3combos" /\ i = 26
    /\ stdout' = stdout \o <<Text("var char2words = []string{")>>
                   \o PrintCombos(combos)
                   \o <<Text("}")>>
    /\ Return

\* The table and map builders
Next ==
    \/ Call
    \/ iso2table_fill
    \/ iso2table_print
    \/ iso3table_fill
    \/ iso3table_print
    \/ iso2map_fill
    \/ iso2map_print
    \/ iso3map_fill
    \/ iso3map_print

Spec == Init /\ [][Next]_vars

\* The combination enumerators, which read no input
InitCombos ==
    /\ main \in { <<r>> : r \in Enumerators }
    /\ data = <<>>
    /\ Locals

NextCombos ==
    \/ Call
    \/ char2combos_row
    \/ char2combos_print
    \/ char3combos_row
    \/ char3combos_print

SpecCombos == InitCombos /\ [][NextCombos]_vars

\* A main that calls iso3table and then iso3map on the same file
InitAgree ==
    /\ main = <<"iso3table", "iso3map">>
    /\ data \in Datasets
    /\ Locals

NextAgree ==
    \/ Call
    \/ iso3table_fill
    \/ iso3table_print
    \/ iso3map_fill
    \/ iso3map_print

SpecAgree == InitAgree /\ [][NextAgree]_vars

-----------------------------------------------------------------------------
(* Vocabulary of the properties *)

\* the code a routine reads from a record, and the length it asserts
CodeOf(r, country) ==
    IF r \in {"iso2table", "iso2map"} THEN country.iso_3166_1_alpha2
    ELSE country.iso_3166_1_alpha3

ExpectedLen(r) == IF r \in {"iso2table", "iso2map"} THEN 2 ELSE 3

AllUpper(code) == \A k \in 1..Len(code) : IsUpper(code[k])

\* the letter index of the glossary: A = 0 .. Z = 25
IndexOf(c) == (CHOOSE n \in 1..26 : UpperCase[n] = c) - 1

\* the codes of the file, in input order, as routine r reads them
Codes(r) == [k \in 1..Len(data) |-> CodeOf(r, data[k])]

\* the name of the last record of the file that carries the code
LastName(r, code) ==
    data[CHOOSE k \in 1..Len(data) :
            /\ Codes(r)[k] = code
            /\ \A m \in (k + 1)..Len(data) : Codes(r)[m] # code].name

WellFormed(r) ==
    \A k \in 1..Len(data) : Len(Codes(r)[k]) = ExpectedLen(r) /\ AllUpper(Codes(r)[k])

UniqueCodes(r) ==
    \A k, m \in 1..Len(data) : k # m => Codes(r)[k] # Codes(r)[m]

\* the value a dict holds under a key
DictGet(d, key) == (CHOOSE item \in {d[k] : k \in 1..Len(d)} : item[1] = key)[2]

DictKeys(d) == [k \in 1..Len(d) |-> d[k][1]]

\* Python's < on strings: by code point, a proper prefix first
RECURSIVE LexLess(_, _)
LexLess(s, t) ==
    IF t = <<>> THEN FALSE
    ELSE IF s = <<>> THEN TRUE
    ELSE IF ord(Head(s)) # ord(Head(t)) THEN ord(Head(s)) < ord(Head(t))
    ELSE LexLess(Tail(s), Tail(t))

\* the rows, each of 26 strings, read as one sequence
Flatten(rows) ==
    [k \in 1..(26 * Len(rows)) |-> rows[((k - 1) \div 26) + 1][((k - 1) % 26) + 1]]

\* the strings of the printed lines between the first and the last line
Emitted == [k \in 1..(Len(stdout) - 2) |-> stdout[k + 1].items]

-----------------------------------------------------------------------------
(* C1: when the alpha-2 codes of the file are pairwise distinct and each    *)
(* is two uppercase letters, the grid iso2table returns holds, for every    *)
(* record with code XY, the record's name at [index(X)][index(Y)], where    *)
(* index(A) = 0 .. index(Z) = 25.                                           *)
C1_GridHoldsEveryName ==
    (/\ routine = "iso2table" /\ pc = "done"
     /\ WellFormed("iso2table") /\ UniqueCodes("iso2table"))
    => \A k \in 1..Len(data) :
         LET code == data[k].iso_3166_1_alpha2
         IN  table[IndexOf(code[1])][IndexOf(code[2])] = data[k].name

C1_Witness ==
    /\ routine = "iso2table" /\ pc = "done"
    /\ WellFormed("iso2table") /\ UniqueCodes("iso2table")
    /\ Len(data) = 2
    /\ table[19][11] = "Testland"
    /\ table[9][14] = "Otherland"

C4_PairsInOrder ==
    (routine = "char2combos" /\ pc = "done")
    => LET out == Flatten(Emitted)
       IN  /\ \A g \in 1..Len(Emitted) : Len(Emitted[g]) = 26
           /\ Len(out) = 676
           /\ Cardinality({out[k] : k \in 1..Len(out)}) = 676
           /\ \A k \in 1..Len(out) : Len(out[k]) = 2 /\ AllUpper(out[k])
           /\ \A k \in 1..(Len(out) - 1) : LexLess(out[k], out[k + 1])

C4_Witness ==
    /\ routine = "char2combos" /\ pc = "done"
    /\ Len(stdout) = 28
    /\ stdout[2].items[1] = <<"A", "A">>
    /\ stdout[27].items[26] = <<"Z", "Z">>

(* C5: char3combos prints, read in output order, exactly 17576 pairwise     *)
(* distinct strings of three characters 'A'..'Z' in increasing              *)
(* lexicographic order, as 676 groups of 26 strings; the strings of a group *)
(* share their first two letters, and the groups follow the order of the    *)
(* outermost letter, then the second.                                       *)
C5_TriplesInOrder ==
    (routine = "char3combos" /\ pc = "done")
    => LET out == Flatten(Emitted)
       IN  /\ Len(Emitted) = 676
           /\ \A g \in 1..Len(Emitted) : Len(Emitted[g]) = 26
           /\ Len(out) = 17576
           /\ Cardinality({out[k] : k \in 1..Len(out)}) = 17576
           /\ \A k \in 1..Len(out) : Len(out[k]) = 3 /\ AllUpper(out[k])
           /\ \A k \in 1..(Len(out) - 1) : LexLess(out[k], out[k + 1])
           /\ \A g \in 1..Len(Emitted) :
                \A k \in 1..26 :
                     SubSeq(Emitted[g][k], 1, 2)
                       = <<UpperCase[((g - 1) \div 26) + 1], UpperCase[((g - 1) % 26) + 1]>>

C5_Witness ==
    /\ routine = "char3combos" /\ pc = "done"
    /\ Len(stdout) = 678
    /\ stdout[2].items[1] = <<"A", "A", "A">>
    /\ stdout[28].items[2] = <<"B", "A", "B">>
    /\ stdout[677].items[26] = <<"Z", "Z", "Z">>

-----------------------------------------------------------------------------
\* the records of the file whose code has not the length routine r asserts
WrongLength(r) == {k \in 1..Len(data) : Len(Codes(r)[k]) # ExpectedLen(r)}

FirstWrongLength(r) == CHOOSE k \in WrongLength(r) : \A m \in WrongLength(r) : k <= m

\* the records whose code has a character with code point mod 65 above 25
OffGrid(r) ==
    {k \in 1..Len(data) : \E n \in 1..Len(Codes(r)[k]) : ord(Codes(r)[k][n]) % 65 >= 26}

TableBuilders == {"iso2table", "iso3table"}

-----------------------------------------------------------------------------
\* the index tuple the table builder computes for the code of record k
Cell(r, k) == [n \in 1..Len(Codes(r)[k]) |-> ord(Codes(r)[k][n]) % 65]

\* the cells addressed by the records the loop has gone through
Addressed(r) == {Cell(r, k) : k \in 1..(idx - 1)}

AllCells2 == {<<r, c>> : r \in range26, c \in range26}

AllCells3 == {<<r, c, z>> : r \in range26, c \in range26, z \in range26}

\* a row, and a matrix, of empty strings
Blank1 == [z \in range26 |-> ""]

Blank2 == [c \in range26 |-> Blank1]

\* every cell of the cube t outside the set of index triples holds ""
BlankOutside(t, used) ==
    \A r \in range26 :
      IF \A u \in used : u[1] # r THEN t[r] = Blank2
      ELSE \A c \in range26 :
             IF \A u \in used : <<u[1], u[2]>> # <<r, c>> THEN t[r][c] = Blank1
             ELSE \A z \in range26 : <<r, c, z>> \notin used => t[r][c][z] = ""

\* the cubes t and u hold the same value in every cell but the one at `at`
SameOutside(t, u, at) ==
    \A r \in range26 :
      IF r # at[1] THEN t[r] = u[r]
      ELSE \A c \in range26 :
             IF c # at[2] THEN t[r][c] = u[r][c]
             ELSE \A z \in range26 : z # at[3] => t[r][c][z] = u[r][c][z]

C6_Cells ==
    /\ (routine = "iso2table" /\ pc \in {"loop", "done"})
         => LET used == Addressed("iso2table")
            IN  \A cell \in AllCells2 : cell \notin used => table[cell[1]][cell[2]] = ""
    /\ (routine = "iso3table" /\ pc \in {"loop", "done"})
         => BlankOutside(table, Addressed("iso3table"))
    /\ (routine = "iso2table" /\ pc = "done" /\ Len(data) = 1
          /\ data[1].iso_3166_1_alpha2 = <<"T", "L">>)
         => /\ table[19][11] = data[1].name
            /\ Cardinality({cell \in AllCells2 : table[cell[1]][cell[2]] = ""}) = 675
    /\ (pc = "done" /\ data = <<>>)
         => /\ routine = "iso2table"
                 => Cardinality({cell \in AllCells2 : table[cell[1]][cell[2]] = ""}) = 676
            /\ routine = "iso3table"
                 => Cardinality({cell \in AllCells3 :
                                   table[cell[1]][cell[2]][cell[3]] = ""}) = 17576
            /\ routine \in {"iso2map", "iso3map"} => isomap = <<>>

C6_Frame ==
    /\ (routine = "iso2table" /\ pc = "loop" /\ idx' = idx + 1)
         => LET at == Cell("iso2table", idx)
            IN  /\ table'[at[1]][at[2]] = data[idx].name
                /\ \A cell \in AllCells2 :
                     cell # at => table'[cell[1]][cell[2]] = table[cell[1]][cell[2]]
    /\ (routine = "iso3table" /\ pc = "loop" /\ idx' = idx + 1)
         => LET at == Cell("iso3table", idx)
            IN  /\ table'[at[1]][at[2]][at[3]] = data[idx].name
                /\ SameOutside(table', table, at)

(* C6: in the grid of iso2table and the cube of iso3table every cell that   *)
(* is not at the index tuple (code point mod 65 of each character) of a     *)
(* record's code holds the empty string, and a record's assignment sets the *)
(* cell of its code and leaves every other cell as it was; the one record   *)
(* TL fills cell (19, 11) alone, and the empty file gives 676, 17576 empty  *)
(* cells and an empty map.                                                  *)
C6_OnlyAddressedCells == []C6_Cells /\ [][C6_Frame]_vars

C6_Witness ==
    /\ routine = "iso2table" /\ pc = "done"
    /\ data = <<Record("Testland", <<"T", "L">>, <<"T", "S", "T">>)>>
    /\ table[19][11] = "Testland"
    /\ table[19][12] = ""
    /\ table[11][19] = ""

-----------------------------------------------------------------------------
\* the index formula on the uppercase letters
C7_LetterIndexLaw ==
    LET letters == {UpperCase[n] : n \in 1..26}
    IN  /\ \A c \in letters : ord(c) \in 65..90
        /\ \A c \in letters : LetterIndex(c) = ord(c) - 65 /\ LetterIndex(c) \in 0..25
        /\ \A c, d \in letters : c # d => LetterIndex(c) # LetterIndex(d)

(* C7: the index formula of the table builders, code point mod 65, equals   *)
(* code point - 65 on every uppercase letter, lies in 0..25 and is          *)
(* injective there; two records of the file with different codes of         *)
(* uppercase letters are stored at different cells.                         *)
C7_LetterIndexInjective ==
    /\ C7_LetterIndexLaw
    /\ (routine \in TableBuilders /\ pc \in {"loop", "done"})
         => \A k, m \in 1..(idx - 1) :
              LET ck == Codes(routine)[k]
                  cm == Codes(routine)[m]
                  at(code) == [n \in 1..Len(code) |-> LetterIndex(code[n])]
              IN  (AllUpper(ck) /\ AllUpper(cm) /\ ck # cm)
                    => /\ at(ck) # at(cm)
                       /\ at(ck) = [n \in 1..Len(ck) |-> ord(ck[n]) - 65]

C7_Witness ==
    /\ routine = "iso3table" /\ pc = "done"
    /\ Len(data) = 2
    /\ table[19][18][19] = "Testland"
    /\ table[9][14][17] = "Otherland"

-----------------------------------------------------------------------------
\* the records with a character that is no uppercase letter
NotUpper(r) == {k \in 1..Len(data) : ~AllUpper(Codes(r)[k])}

\* the name of the last record whose code addresses the cell of record k
LastAt(r, k) ==
    data[CHOOSE m \in 1..Len(data) :
            /\ Cell(r, m) = Cell(r, k)
            /\ \A n \in (m + 1)..Len(data) : Cell(r, n) # Cell(r, k)].name

CellValue(t, at) == IF Len(at) = 2 THEN t[at[1]][at[2]] ELSE t[at[1]][at[2]][at[3]]

(* C8 as stated: with codes of the asserted length of which one has a       *)
(* character that is no uppercase letter, the table builders raise no       *)
(* error, the run completes and prints its output, the name stored at the   *)
(* cell of the code points mod 65.                                          *)
C8_SilentOnAnyCharacter ==
    (/\ routine \in TableBuilders /\ pc \in {"done", "aborted"}
     /\ WrongLength(routine) = {} /\ NotUpper(routine) # {})
    => /\ pc = "done" /\ error = "" /\ stdout # <<>>
       /\ \A k \in NotUpper(routine) :
            CellValue(table, Cell(routine, k)) = LastAt(routine, k)

(* C8 amended: with codes of the asserted length of which one has a         *)
(* character that is no uppercase letter, the table builders are silent     *)
(* only when every character's code point mod 65 is below 26 (a tab, code   *)
(* point 9): the run then completes and prints, each name stored at the     *)
(* cell of the code points mod 65 unless a later record addresses that      *)
(* cell.  When a character's code point mod 65 is 26 or more (every         *)
(* lowercase letter, every digit) the builder raises IndexError at the      *)
(* first such record, the run aborts and nothing is printed.                *)
C8_SilentOnlyBelow26 ==
    (/\ routine \in TableBuilders /\ pc \in {"done", "aborted"}
     /\ WrongLength(routine) = {} /\ NotUpper(routine) # {})
    => IF OffGrid(routine) = {}
       THEN /\ pc = "done" /\ error = "" /\ stdout # <<>>
            /\ \A k \in 1..Len(data) :
                 CellValue(table, Cell(routine, k)) = LastAt(routine, k)
       ELSE /\ pc = "aborted" /\ error = "IndexError" /\ stdout = <<>>
            /\ idx \in OffGrid(routine)
            /\ \A k \in OffGrid(routine) : idx <= k

C8_Witness ==
    /\ routine = "iso2table" /\ pc = "done" /\ error = ""
    /\ Len(data) = 2
    /\ data[1].iso_3166_1_alpha2 = <<"J", "O">>
    /\ data[2].iso_3166_1_alpha2 = <<"\t", "O">>
    /\ table[9][14] = "Tabland"
    /\ Len(stdout) = 28

-----------------------------------------------------------------------------
\* a sequence without the later occurrences of its elements
RECURSIVE FirstOccurrences(_)
FirstOccurrences(s) ==
    IF s = <<>> THEN <<>>
    ELSE LET front == FirstOccurrences(SubSeq(s, 1, Len(s) - 1))
             last == s[Len(s)]
         IN  IF \E k \in 1..Len(front) : front[k] = last THEN front
             ELSE Append(front, last)

(* C9: iso2map and iso3map print one line per distinct code of the file,    *)
(* in the order in which the codes first occur in the file; the line of a   *)
(* code carries the name of the last record with that code.                 *)
C9_LinesInFirstOccurrenceOrder ==
    (routine \in {"iso2map", "iso3map"} /\ pc = "done")
    => LET keys == FirstOccurrences(Codes(routine))
       IN  /\ Len(stdout) = Len(keys) + 2
           /\ \A k \in 1..Len(keys) :
                /\ Emitted[k][1] = keys[k]
                /\ Emitted[k][2] = LastName(routine, keys[k])

C9_Witness ==
    /\ routine = "iso3map" /\ pc = "done"
    /\ Len(data) = 3
    /\ data[1].iso_3166_1_alpha3 = data[3].iso_3166_1_alpha3
    /\ data[2].iso_3166_1_alpha3 # data[1].iso_3166_1_alpha3
    /\ data[1].name # data[3].name
    /\ Len(stdout) = 4
    /\ stdout[2].items = <<data[1].iso_3166_1_alpha3, data[3].name>>
    /\ stdout[3].items = <<data[2].iso_3166_1_alpha3, data[2].name>>

-----------------------------------------------------------------------------
(* C10: on a file whose alpha-3 codes are three uppercase letters each,     *)
(* the cube iso3table returns and the map iso3map returns agree: the cube   *)
(* holds map[c0c1c2] at [index(c0)][index(c1)][index(c2)] for every code of *)
(* the map, and the empty string in every other cell.                       *)
C10_CubeAgreesWithMap ==
    (pc = "done" /\ routine = "iso3map" /\ WellFormed("iso3map"))
    => LET keyCells == {<<IndexOf(isomap[k][1][1]), IndexOf(isomap[k][1][2]),
                          IndexOf(isomap[k][1][3])>> : k \in 1..Len(isomap)}
       IN  /\ \A k \in 1..Len(isomap) :
                LET code == isomap[k][1]
                IN  table[IndexOf(code[1])][IndexOf(code[2])][IndexOf(code[3])] = isomap[k][2]
           /\ BlankOutside(table, keyCells)

C10_Witness ==
    /\ pc = "done" /\ routine = "iso3map" /\ WellFormed("iso3map")
    /\ Len(data) = 3
    /\ Len(isomap) = 2
    /\ table[19][18][19] = "Otherland"
    /\ table[9][14][17] = "Testland"
    /\ data[1].name = "Testland"
    /\ data[1].iso_3166_1_alpha3 = <<"T", "S", "T">>

====
